---- MODULE Spec2Model ----
(***************************************************************************)
(* A model of src/app.py, the CORD-19 metadata explorer: one Streamlit     *)
(* script that loads metadata.csv once (st.cache_data), filters it by a    *)
(* year range and a journal, and renders counts, two charts and the words  *)
(* of the titles.  One run of the script is one action (Run); the file on  *)
(* disk changes behind the program's back (ChangeSource).                  *)
(*                                                                         *)
(* Encoding.  A cell is <<>> when it is null (NaN, NaT, None) and <<v>>    *)
(* when it holds v.  A title is a sequence of one-character strings.  A    *)
(* journal name is a positive integer; 0 stands for the selectbox entry    *)
(* 'All'.  The text of a date is <<year, month, day>>.                     *)
(*                                                                         *)
(* The widgets and the plotting calls are library code: a call is taken to *)
(* return (the slider any lo <= hi inside its bounds, the selectbox one of *)
(* its options, a chart drawn) and is recorded in `rendered`.              *)
(***************************************************************************)
EXTENDS Integers, Sequences, FiniteSets

VARIABLES
  source,            \* metadata.csv as it is on disk now
  cache,             \* st.cache_data's entry for load_data(): <<>> or <<result>>
  reads,             \* how many times pd.read_csv has been called
  served,            \* how the last load_data() call was answered: "none", "miss", "hit"
  year_range,        \* the slider's value <<lo, hi>> of the last run, or <<>>
  journals,          \* the selectbox's options of the last run
  selected_journal,  \* the selectbox's value of the last run, or <<>>
  filtered_df,       \* the rows of filtered_df of the last run
  top_journals,      \* <<journal, count>> pairs plotted by the last run
  filtered_words,    \* the words handed to WordCloud by the last run
  rendered,          \* the elements the last run put on the page, in order
  error              \* the exception that ended the last run, or "none"

vars == <<source, cache, reads, served, year_range, journals, selected_journal,
          filtered_df, top_journals, filtered_words, rendered, error>>

-----------------------------------------------------------------------------
(* Bounds of the model *)

MaxRows == 2
MaxExtra == 1
NumWide == 21
MaxChars == 4
MaxReads == 3

-----------------------------------------------------------------------------
(* Cells *)

Null == <<>>
Some(v) == <<v>>
All == 0

Max(S) == CHOOSE x \in S : \A y \in S : y <= x
Min(S) == CHOOSE x \in S : \A y \in S : x <= y

RECURSIVE Concat(_)
Concat(ss) == IF ss = <<>> THEN <<>> ELSE Head(ss) \o Concat(Tail(ss))

\* the sequence f, as a tuple
AsSeq(f) == <<>> \o f

Reverse(s) == AsSeq([i \in 1..Len(s) |-> s[Len(s) + 1 - i]])

-----------------------------------------------------------------------------
(* load_data: read_csv, dropna(subset=['title']), to_datetime, dt.year *)

None == [none |-> TRUE, hasJournal |-> FALSE, hasYear |-> FALSE, rows |-> <<>>]

IsLeap(y) == (y % 4 = 0 /\ y % 100 # 0) \/ y % 400 = 0

DaysInMonth(y, m) ==
  IF m = 2 THEN (IF IsLeap(y) THEN 29 ELSE 28)
  ELSE IF m \in {4, 6, 9, 11} THEN 30 ELSE 31

\* pd.to_datetime(cell, errors='coerce'): the timestamp, or NaT.
to_datetime(cell) ==
  IF cell = Null THEN Null
  ELSE LET t == cell[1]
       IN IF t[2] \in 1..12 /\ t[3] >= 1 /\ t[3] <= DaysInMonth(t[1], t[2])
          THEN Some(t) ELSE Null

\* .dt.year: the year of a timestamp, NaN for NaT.
dt_year(ts) == IF ts = Null THEN Null ELSE Some(ts[1][1])

\* load_data without the dropna
dropna_titleKeepAll(rows) == rows

\* df.dropna(subset=['title'])
dropna_title(rows) == SelectSeq(rows, LAMBDA r : r.title # Null)

df_clean(src) ==
  LET kept == dropna_title(src.rows)
  IN AsSeq([i \in 1..Len(kept) |->
              [title |-> kept[i].title,
               journal |-> kept[i].journal,
               publication_year |->
                 IF src.hasPublishTime THEN dt_year(to_datetime(kept[i].publish_time))
                 ELSE Null]])

\* The body of load_data: None on any exception (no file, no table, no title
\* column), else the cleaned frame.
load_data(src) ==
  IF src.status # "ok" THEN None
  ELSE IF ~src.hasTitle THEN None
  ELSE [none |-> FALSE, hasJournal |-> src.hasJournal,
        hasYear |-> src.hasPublishTime, rows |-> df_clean(src)]

\* load_data without the decorator
HitNever(c) == FALSE

\* @st.cache_data: a call is answered from the entry once there is one.
Hit(c) == c # <<>>

-----------------------------------------------------------------------------
(* The sidebar filters *)

JournalOptionsLimit == 20
TopN == 10
MinWordLen == 3

\* Series.min() / .max() skip NaN and give NaN when nothing is left.
YearsOf(rows) ==
  {rows[i].publication_year[1] : i \in {k \in 1..Len(rows) : rows[k].publication_year # Null}}

min_year(rows) == IF YearsOf(rows) = {} THEN Null ELSE Some(Min(YearsOf(rows)))
max_year(rows) == IF YearsOf(rows) = {} THEN Null ELSE Some(Max(YearsOf(rows)))

\* st.sidebar.slider(min_year, max_year, (min_year, max_year)): a range inside the bounds.
SliderValues(lo, hi) == {r \in (lo..hi) \X (lo..hi) : r[1] <= r[2]}

\* the year filter with | in place of &
YearFilterOr(rows, yr) ==
  SelectSeq(rows, LAMBDA r : r.publication_year # Null
                             /\ (r.publication_year[1] >= yr[1] \/ r.publication_year[1] <= yr[2]))

\* df[(df['publication_year'] >= year_range[0]) & (df['publication_year'] <= year_range[1])]
\* A comparison with NaN is False.
YearFilter(rows, yr) ==
  SelectSeq(rows, LAMBDA r : r.publication_year # Null
                             /\ r.publication_year[1] >= yr[1]
                             /\ r.publication_year[1] <= yr[2])

\* filtered_df[filtered_df['journal'] == selected_journal]
JournalFilter(rows, sel) == SelectSeq(rows, LAMBDA r : r.journal = Some(sel))

\* Lines 43-60 as a function of the frame and the two widget values.
FilterView(df, yr, sel) ==
  LET byYear == IF df.hasYear THEN YearFilter(df.rows, yr) ELSE df.rows
  IN IF df.hasJournal /\ sel # Some(All) THEN JournalFilter(byYear, sel[1]) ELSE byYear

\* Series.dropna() on the journal column
JournalColumn(rows) ==
  LET present == SelectSeq(rows, LAMBDA r : r.journal # Null)
  IN AsSeq([i \in 1..Len(present) |-> present[i].journal[1]])

\* Series.unique(): the distinct values in the order they are first met.
unique(s) ==
  LET at == AsSeq([i \in 1..Len(s) |-> <<i, s[i]>>])
      first == SelectSeq(at, LAMBDA p : \A j \in 1..(p[1] - 1) : s[j] # p[2])
  IN AsSeq([i \in 1..Len(first) |-> first[i][2]])

head(s, n) == SubSeq(s, 1, IF Len(s) < n THEN Len(s) ELSE n)

\* the options cut at [:21]
JournalOptionsOneMore(rows) == <<All>> \o head(unique(JournalColumn(rows)), JournalOptionsLimit + 1)

\* ['All'] + df['journal'].dropna().unique().tolist()[:20]
JournalOptions(rows) == <<All>> \o head(unique(JournalColumn(rows)), JournalOptionsLimit)

-----------------------------------------------------------------------------
(* The aggregates *)

\* len(filtered_df)
TotalPapers(rows) == Len(rows)

\* filtered_df['publication_year'].min() and .max(): NaN when no year is present.
YearBounds(rows) == <<min_year(rows), max_year(rows)>>

CountOf(col, x) == Cardinality({i \in 1..Len(col) : col[i] = x})

\* value_counts().sort_index() on the year column: <<year, count>> by year ascending.
RECURSIVE YearCountsFrom(_, _, _)
YearCountsFrom(rows, y, last) ==
  IF y > last THEN <<>>
  ELSE LET n == Cardinality({i \in 1..Len(rows) : rows[i].publication_year = Some(y)})
       IN (IF n > 0 THEN <<<<y, n>>>> ELSE <<>>) \o YearCountsFrom(rows, y + 1, last)

year_counts(rows) ==
  IF YearsOf(rows) = {} THEN <<>>
  ELSE YearCountsFrom(rows, Min(YearsOf(rows)), Max(YearsOf(rows)))

\* The outcomes of the sort inside value_counts.  pandas sorts the counts with
\* sort_values' default kind, quicksort, which is not a stable sort: the order
\* of equal counts is not fixed by the code.  Two outcomes stand for the range:
\* equal counts in the order first met, and in the opposite order.
TieOrders == {"first", "last"}

RECURSIVE ByCountFrom(_, _)
ByCountFrom(vc, c) ==
  IF c < 1 THEN <<>>
  ELSE SelectSeq(vc, LAMBDA p : p[2] = c) \o ByCountFrom(vc, c - 1)

\* Series.value_counts(): <<value, count>> for each non-null value, counts descending.
value_counts(col, tie) ==
  LET keys == unique(col)
      vc == AsSeq([i \in 1..Len(keys) |-> <<keys[i], CountOf(col, keys[i])>>])
      arranged == IF tie = "first" THEN vc ELSE Reverse(vc)
  IN ByCountFrom(arranged, Len(col))

\* the top journals cut at head(11)
TopJournalsOneMore(rows, tie) == head(value_counts(JournalColumn(rows), tie), TopN + 1)

\* filtered_df['journal'].value_counts().head(10)
TopJournals(rows, tie) == head(value_counts(JournalColumn(rows), tie), TopN)

-----------------------------------------------------------------------------
(* The words of the titles: ' '.join, str.lower, re.findall, the stop words *)

UpperLetters == <<"A", "B", "C", "D", "E", "F", "G", "H", "I", "J", "K", "L", "M",
                  "N", "O", "P", "Q", "R", "S", "T", "U", "V", "W", "X", "Y", "Z">>
LowerLetters == <<"a", "b", "c", "d", "e", "f", "g", "h", "i", "j", "k", "l", "m",
                  "n", "o", "p", "q", "r", "s", "t", "u", "v", "w", "x", "y", "z">>
Digits == {"0", "1", "2", "3", "4", "5", "6", "7", "8", "9"}

Range(f) == {f[i] : i \in DOMAIN f}

AsciiLetters == Range(UpperLetters) \cup Range(LowerLetters)
WordChars == AsciiLetters \cup Digits \cup {"_"}
LowerOf == [c \in Range(UpperLetters) |->
              LowerLetters[CHOOSE i \in DOMAIN UpperLetters : UpperLetters[i] = c]]

\* [a-zA-Z]
IsAsciiLetter(c) == c \in AsciiLetters

\* \w, the characters \b tells from the others: letters, digits and the underscore
IsWordChar(c) == c \in WordChars

LowerChar(c) == IF c \in DOMAIN LowerOf THEN LowerOf[c] ELSE c

\* str.lower()
lower(s) == AsSeq([i \in 1..Len(s) |-> LowerChar(s[i])])

\* ' '.join(titles)
RECURSIVE Join(_)
Join(titles) ==
  IF titles = <<>> THEN <<>>
  ELSE IF Len(titles) = 1 THEN Head(titles)
  ELSE Head(titles) \o <<" ">> \o Join(Tail(titles))

\* \b at position i (before s[i]; i = Len(s) + 1 is the end of the text)
WordAt(s, i) == i >= 1 /\ i <= Len(s) /\ IsWordChar(s[i])
Boundary(s, i) == WordAt(s, i - 1) # WordAt(s, i)

\* how many ASCII letters follow one another from position i on
RECURSIVE LetterRun(_, _)
LetterRun(s, i) ==
  IF i <= Len(s) /\ IsAsciiLetter(s[i]) THEN 1 + LetterRun(s, i + 1) ELSE 0

\* The length of the match of \b[a-zA-Z]{3,}\b at position i, 0 when there is
\* none: the longest run of letters the closing \b accepts.
MatchLen(s, i) ==
  IF ~Boundary(s, i) THEN 0
  ELSE LET ends == {n \in MinWordLen..LetterRun(s, i) : Boundary(s, i + n)}
       IN IF ends = {} THEN 0 ELSE Max(ends)

\* The matches at the positions in starts, from position i on, left to right,
\* each search starting where the match before it ended.
RECURSIVE MatchesFrom(_, _, _)
MatchesFrom(s, i, starts) ==
  LET rest == {j \in starts : j >= i}
  IN IF rest = {} THEN <<>>
     ELSE LET j == Min(rest)
              n == MatchLen(s, j)
          IN <<SubSeq(s, j, j + n - 1)>> \o MatchesFrom(s, j + n, rest)

\* re.findall(r'\b[a-zA-Z]{3,}\b', s)
findall(s) == MatchesFrom(s, 1, {j \in 1..Len(s) : MatchLen(s, j) > 0})

stop_words ==
  {<<"t", "h", "e">>, <<"a", "n", "d">>, <<"o", "f">>, <<"i", "n">>, <<"t", "o">>,
   <<"a">>, <<"f", "o", "r">>, <<"w", "i", "t", "h">>, <<"o", "n">>}

\* filtered_df['title'].dropna().astype(str)
TitleColumn(rows) ==
  LET present == SelectSeq(rows, LAMBDA r : r.title # Null)
  IN AsSeq([i \in 1..Len(present) |-> present[i].title[1]])

\* the titles joined with ''
all_titlesNoSeparator(rows) == Concat(TitleColumn(rows))

all_titles(rows) == Join(TitleColumn(rows))

words(rows) == findall(lower(all_titles(rows)))

\* [word for word in words if word not in stop_words]
FilteredWords(rows) == SelectSeq(words(rows), LAMBDA w : w \notin stop_words)

-----------------------------------------------------------------------------
(* One run of the script *)

PageHeader == <<"title", "description">>
PageFooter == <<"sidebar.markdown", "sidebar.info">>

\* the error message rendered twice
UnavailableTwice == <<"error", "error">>

\* st.error("Could not load metadata.csv. ...")
Unavailable == <<"error">>

NoRun ==
  [year_range |-> Null, journals |-> <<>>, selected_journal |-> Null,
   filtered_df |-> <<>>, top_journals |-> <<>>, filtered_words |-> <<>>,
   rendered |-> <<>>, error |-> "none"]

\* int(df['publication_year'].min()) raises ValueError on NaN.
YearBoundsFail(df) == df.hasYear /\ min_year(df.rows) = Null

\* filtered_df[['title', 'journal', 'publication_year']] raises KeyError when the
\* frame has a journal column and no publication_year column.
SampleFail(df) == df.hasJournal /\ ~df.hasYear

SliderChoices(df) ==
  IF df.none \/ ~df.hasYear \/ YearBoundsFail(df) THEN {Null}
  ELSE SliderValues(min_year(df.rows)[1], max_year(df.rows)[1])

\* st.sidebar.selectbox: the user picks 'All', one of the first two journals
\* or the last one offered.
PickPositions(n) == {i \in 1..n : i <= 3 \/ i = n}

SelectChoices(df) ==
  IF df.none \/ ~df.hasJournal \/ YearBoundsFail(df) THEN {Null}
  ELSE LET opts == JournalOptions(df.rows)
       IN {Some(opts[i]) : i \in PickPositions(Len(opts))}

Widgets(df) ==
  <<"sidebar.header">>
  \o (IF df.hasYear THEN <<"slider">> ELSE <<>>)
  \o (IF df.hasJournal THEN <<"selectbox">> ELSE <<>>)

Overview(df) ==
  <<"overview.header", "total_papers", "columns">>
  \o (IF df.hasYear THEN <<"year_bounds">> ELSE <<>>)

Charts(df, bag) ==
  <<"visualizations.header">>
  \o (IF df.hasYear THEN <<"year_chart">> ELSE <<>>)
  \o (IF df.hasJournal THEN <<"journal_chart">> ELSE <<>>)
  \o <<"wordcloud.header">>
  \o (IF bag # <<>> THEN <<"wordcloud">> ELSE <<>>)

\* The script from its first line to its last, or to the exception that ends
\* it, given the frame load_data() returned and the values of the widgets.
Script(df, yr, sel, tie) ==
  IF df.none
  THEN [NoRun EXCEPT !.rendered = PageHeader \o Unavailable \o PageFooter]
  ELSE IF YearBoundsFail(df)
  THEN [NoRun EXCEPT !.rendered = PageHeader \o <<"sidebar.header", "exception">>,
                     !.error = "ValueError"]
  ELSE
    LET view == FilterView(df, yr, sel)
        opts == IF df.hasJournal THEN JournalOptions(df.rows) ELSE <<>>
        shown == [NoRun EXCEPT !.year_range = yr, !.journals = opts,
                               !.selected_journal = sel, !.filtered_df = view]
    IN IF SampleFail(df)
       THEN [shown EXCEPT
               !.rendered = PageHeader \o Widgets(df) \o Overview(df)
                            \o <<"sample.header", "exception">>,
               !.error = "KeyError"]
       ELSE LET bag == FilteredWords(view)
            IN [shown EXCEPT
                  !.top_journals = IF df.hasJournal THEN TopJournals(view, tie) ELSE <<>>,
                  !.filtered_words = bag,
                  !.rendered = PageHeader \o Widgets(df) \o Overview(df)
                               \o <<"sample.header", "sample.table">>
                               \o Charts(df, bag) \o PageFooter]

Show(r) ==
  /\ year_range' = r.year_range
  /\ journals' = r.journals
  /\ selected_journal' = r.selected_journal
  /\ filtered_df' = r.filtered_df
  /\ top_journals' = r.top_journals
  /\ filtered_words' = r.filtered_words
  /\ rendered' = r.rendered
  /\ error' = r.error

\* A user interaction: Streamlit runs the script again, top to bottom.
Run ==
  /\ ~Hit(cache) => reads < MaxReads
  /\ \E df \in {IF Hit(cache) THEN cache[1] ELSE load_data(source)} :
       /\ cache' = <<df>>
       /\ reads' = IF Hit(cache) THEN reads ELSE reads + 1
       /\ served' = IF Hit(cache) THEN "hit" ELSE "miss"
       /\ \E yr \in SliderChoices(df), sel \in SelectChoices(df) :
            \E r \in {Script(df, yr, sel, tie) : tie \in TieOrders} : Show(r)
  /\ UNCHANGED source

-----------------------------------------------------------------------------
(* The file on disk *)

Missing ==
  [status |-> "missing", hasTitle |-> FALSE, hasJournal |-> FALSE,
   hasPublishTime |-> FALSE, rows |-> <<>>]

Malformed == [Missing EXCEPT !.status = "malformed"]

Table(hasT, hasJ, hasP, rows) ==
  [status |-> "ok", hasTitle |-> hasT, hasJournal |-> hasJ,
   hasPublishTime |-> hasP, rows |-> rows]

\* The file is removed, or rewritten with its header alone.
ChangeSource ==
  /\ \E s \in {Missing, [source EXCEPT !.rows = <<>>]} \ {source} : source' = s
  /\ UNCHANGED <<cache, reads, served, year_range, journals, selected_journal,
                 filtered_df, top_journals, filtered_words, rendered, error>>

-----------------------------------------------------------------------------
(* The inputs *)

SampleTitle == <<"T", "h", "e", " ", "f", "l", "u">>

TitleCells == {Null, Some(SampleTitle)}
JournalCells == {Null, Some(1)}
PublishCells == {Null, Some(<<2019, 2, 29>>), Some(<<2020, 2, 29>>), Some(<<2021, 6, 30>>)}

\* A column the table does not have is null in every row.
RowsFor(hasJ, hasP) ==
  [title : TitleCells,
   journal : IF hasJ THEN JournalCells ELSE {Null},
   publish_time : IF hasP THEN PublishCells ELSE {Null}]

SeqsUpTo(S, n) == UNION {[1..k -> S] : k \in 0..n}

\* Tables of up to MaxRows rows with every choice of the optional columns, a
\* table without a title column, and the files read_csv cannot read.
Sources ==
  {Missing, Malformed, Table(FALSE, FALSE, FALSE, <<>>)}
  \cup UNION {{Table(TRUE, hasJ, hasP, rows) :
                 rows \in SeqsUpTo(RowsFor(hasJ, hasP), MaxRows)} :
              hasJ \in BOOLEAN, hasP \in BOOLEAN}

\* Tables that open with NumWide rows of NumWide different journals, all of
\* 2020, and go on with up to MaxExtra rows of journal 2 or of no journal, of
\* 2021 or with a date that is none.
WideBase ==
  [k \in 1..NumWide |->
     [title |-> Some(SampleTitle), journal |-> Some(k), publish_time |-> Some(<<2020, 2, 29>>)]]

WideSources ==
  {Missing}
  \cup {Table(TRUE, TRUE, TRUE, WideBase \o extra) :
          extra \in SeqsUpTo([title : {Some(SampleTitle)},
                              journal : {Null, Some(2)},
                              publish_time : {Some(<<2019, 2, 29>>), Some(<<2021, 6, 30>>)}],
                             MaxExtra)}

\* Tables of titles alone: one or two titles of up to MaxChars characters in all.
Alphabet == {"t", "h", "e", "1", " "}

RECURSIVE Strings(_)
Strings(n) ==
  IF n = 0 THEN {<<>>} ELSE {Append(s, c) : s \in Strings(n - 1), c \in Alphabet}

ExampleTitles ==
  <<<<"C", "o", "v", "i", "d", " ", "a", "n", "d", " ", "L", "u", "n", "g", "s">>,
    <<"T", "h", "e", " ", "V", "a", "c", "c", "i", "n", "e", " ", "S", "t", "u", "d", "y">>>>

TitleLists ==
  {ExampleTitles}
  \cup UNION {{<<t>> : t \in Strings(n)} : n \in 1..MaxChars}
  \cup UNION {{<<t, u>> : t \in Strings(n[1]), u \in Strings(n[2])} :
              n \in {m \in (1..MaxChars) \X (1..MaxChars) : m[1] + m[2] <= MaxChars}}

TitleRows(titles) ==
  [i \in 1..Len(titles) |-> [title |-> Some(titles[i]), journal |-> Null, publish_time |-> Null]]

WordSources ==
  {Missing} \cup {Table(TRUE, FALSE, FALSE, TitleRows(titles)) : titles \in TitleLists}

-----------------------------------------------------------------------------
(* The specifications *)

Fresh ==
  /\ cache = <<>>
  /\ reads = 0
  /\ served = "none"
  /\ year_range = Null
  /\ journals = <<>>
  /\ selected_journal = Null
  /\ filtered_df = <<>>
  /\ top_journals = <<>>
  /\ filtered_words = <<>>
  /\ rendered = <<>>
  /\ error = "none"

Init == source \in Sources /\ Fresh

Next == Run \/ ChangeSource

Spec == Init /\ [][Next]_vars

InitWide == source \in WideSources /\ Fresh

SpecWide == InitWide /\ [][Next]_vars

InitWords == source \in WordSources /\ Fresh

SpecWords == InitWords /\ [][Next]_vars

\* The filter alone, lines 43-60 applied to a loaded frame with any two years
\* as the range and any of the offered journals.
ModelYears == {c[1][1] : c \in PublishCells \ {Null}}

Filter ==
  /\ cache # <<>>
  /\ ~cache[1].none
  /\ \E yr \in (IF cache[1].hasYear THEN ModelYears \X ModelYears ELSE {Null}),
        sel \in (IF cache[1].hasJournal
                 THEN {Some(j) : j \in Range(JournalOptions(cache[1].rows))}
                 ELSE {Null}) :
       /\ year_range' = yr
       /\ selected_journal' = sel
       /\ journals' = IF cache[1].hasJournal THEN JournalOptions(cache[1].rows) ELSE <<>>
       /\ filtered_df' = FilterView(cache[1], yr, sel)
  /\ UNCHANGED <<source, cache, reads, served, top_journals, filtered_words, rendered, error>>

InitFilter ==
  /\ source \in Sources
  /\ cache = <<load_data(source)>>
  /\ reads = 1
  /\ served = "miss"
  /\ year_range = Null
  /\ journals = <<>>
  /\ selected_journal = Null
  /\ filtered_df = <<>>
  /\ top_journals = <<>>
  /\ filtered_words = <<>>
  /\ rendered = <<>>
  /\ error = "none"

SpecFilter == InitFilter /\ [][Filter]_vars

-----------------------------------------------------------------------------
(* What the claims speak of *)

Loaded == cache # <<>> /\ ~cache[1].none
df == cache[1]
Shows(e) == \E i \in 1..Len(rendered) : rendered[i] = e
Completed == Shows("sidebar.info")

InRange(y, yr) == y # Null /\ y[1] >= yr[1] /\ y[1] <= yr[2]

\* journals of a view
JournalsIn(rows) == {rows[i].journal[1] : i \in {k \in 1..Len(rows) : rows[k].journal # Null}}
CountIn(rows, j) == Cardinality({i \in 1..Len(rows) : rows[i].journal = Some(j)})
FirstIn(rows, j) == Min({i \in 1..Len(rows) : rows[i].journal = Some(j)})

-----------------------------------------------------------------------------
(* C1: the year filter and the rows without a year *)

\* The view the claim describes: a row stays when its year, if it has one, lies
\* in the range, and its journal is the chosen one when one is chosen.
ClaimedView(rows, yr, sel) ==
  SelectSeq(rows, LAMBDA r :
    /\ r.publication_year = Null \/ InRange(r.publication_year, yr)
    /\ sel \in {Null, Some(All)} \/ r.journal = sel)

\* C1: for a loaded dataset with a year attribute, every year range and every
\* journal choice, the filtered view holds exactly the records whose year, if
\* present, lies in the range and whose journal is the chosen one; a record
\* without a year is never removed by the year predicate.
C1_AbsentYearsSurviveTheYearFilter ==
  (Loaded /\ df.hasYear /\ year_range # Null)
    => filtered_df = ClaimedView(df.rows, year_range, selected_journal)

-----------------------------------------------------------------------------
(* C2: a publish_time column without one parseable date *)

\* C2: when the dataset has a publish_time column and no record has a year
\* (zero rows included), the year filter is skipped, the view before the journal
\* filter is the whole dataset, and the run ends without an error.
C2_NoParseableYearSkipsTheFilter ==
  (Loaded /\ df.hasYear /\ YearsOf(df.rows) = {})
    => /\ error = "none"
       /\ Completed
       /\ ~Shows("slider")
       /\ (selected_journal \in {Null, Some(All)} => filtered_df = df.rows)

-----------------------------------------------------------------------------
(* C3: the optional columns *)

\* C3: whichever of the journal and publish_time columns the loaded dataset
\* has, a run completes without an error, each feature of an absent column is
\* skipped, and without a publish_time column the view is not filtered by year.
\* (Datasets with a publish_time column and no year at all are C2's.)
C3_AbsentColumnsAreSkipped ==
  (Loaded /\ (df.hasYear => YearsOf(df.rows) # {}))
    => /\ error = "none"
       /\ Completed
       /\ Shows("slider") = df.hasYear
       /\ Shows("year_chart") = df.hasYear
       /\ Shows("selectbox") = df.hasJournal
       /\ Shows("journal_chart") = df.hasJournal
       /\ (~df.hasYear => filtered_df = ClaimedView(df.rows, <<0, 0>>, selected_journal)
                          /\ \A i \in 1..Len(df.rows) : df.rows[i].publication_year = Null)

-----------------------------------------------------------------------------
(* C4: what load returns *)

\* The texts of PublishCells that are dates of the calendar.
RealDates == {<<2020, 2, 29>>, <<2021, 6, 30>>}

Titled(src) == {i \in 1..Len(src.rows) : src.rows[i].title # Null}

\* the k-th row of the file that has a title
NthTitled(src, k) ==
  CHOOSE i \in Titled(src) : Cardinality({j \in Titled(src) : j < i}) = k - 1

LoadedAsClaimed(src, d) ==
  /\ ~d.none
  /\ d.hasYear = src.hasPublishTime
  /\ Len(d.rows) = Cardinality(Titled(src))
  /\ \A k \in 1..Len(d.rows) :
       LET in == src.rows[NthTitled(src, k)]
           out == d.rows[k]
       IN /\ out.title = in.title
          /\ out.journal = in.journal
          /\ out.publication_year =
               IF src.hasPublishTime /\ in.publish_time # Null
                  /\ in.publish_time[1] \in RealDates
               THEN Some(in.publish_time[1][1]) ELSE Null

\* C4: load returns exactly the rows of the file that have a title, in their
\* order; a row whose publish_time is missing or is no date is kept with no
\* year, a row with a date gets the year of the date; a bad date never makes
\* the load fail.
C4_LoadKeepsTheTitledRows ==
  [][(cache = <<>> /\ cache' # <<>> /\ source.status = "ok" /\ source.hasTitle)
       => LoadedAsClaimed(source, cache'[1])]_vars

C4_Witness ==
  /\ Loaded
  /\ served = "miss"
  /\ source.hasPublishTime
  /\ Len(source.rows) = 2
  /\ source.rows[1].title = Null
  /\ source.rows[2].title # Null
  /\ source.rows[2].publish_time = Some(<<2019, 2, 29>>)
  /\ Len(df.rows) = 1
  /\ df.rows[1].publication_year = Null

-----------------------------------------------------------------------------
(* C5: a range whose lower end is above its upper end *)

\* C5: a year range [lo, hi] with lo > hi leaves the filtered view empty,
\* whatever the dataset and the journal choice.
C5_VacuousRangeIsEmpty ==
  (year_range # Null /\ year_range[1] > year_range[2]) => filtered_df = <<>>

C5_Witness ==
  /\ Loaded
  /\ year_range = <<2021, 2020>>
  /\ YearsOf(df.rows) = {2020, 2021}
  /\ selected_journal = Some(All)
  /\ filtered_df = <<>>

-----------------------------------------------------------------------------
(* C6: the load fails *)

SourceUnavailable(src) == src.status # "ok" \/ ~src.hasTitle

\* C6 as stated: when loading fails, load returns the 'unavailable' signal
\* instead of raising, and the run renders exactly one error message and
\* nothing else.
C6_OnlyTheErrorIsRendered ==
  [][source' = source =>
       /\ (cache = <<>> /\ SourceUnavailable(source))
            => (cache' = <<None>> /\ error' = "none")
       /\ (cache' # <<>> /\ cache'[1].none) => rendered' = <<"error">>]_vars

AlwaysRendered == {"title", "description", "sidebar.markdown", "sidebar.info"}

\* C6 as amended: when loading fails, load returns the 'unavailable' signal
\* instead of raising, and the run renders exactly one error message; besides
\* it only the page title, the description and the sidebar's run instructions
\* appear, which every run renders: no filter widget, summary, table or chart.
C6_ErrorAndTheFixedElements ==
  [][source' = source =>
       /\ (cache = <<>> /\ SourceUnavailable(source))
            => (cache' = <<None>> /\ error' = "none")
       /\ (cache' # <<>> /\ cache'[1].none)
            => /\ Cardinality({i \in 1..Len(rendered') : rendered'[i] = "error"}) = 1
               /\ \A i \in 1..Len(rendered') :
                    rendered'[i] \in AlwaysRendered \cup {"error"}]_vars

C6_Witness ==
  /\ cache = <<None>>
  /\ source.status = "malformed"
  /\ served = "miss"
  /\ Shows("error")
  /\ Shows("title")
  /\ Shows("sidebar.info")

-----------------------------------------------------------------------------
(* C7: the cache *)

\* C7: over any sequence of runs the source is read at most once; the first
\* load result, a dataset or the unavailable signal, is what every later run
\* sees, even if the file has changed since; no run modifies the cached result.
C7_LoadedOnceAndNeverChanged ==
  [][/\ reads' <= 1
     /\ cache # <<>> => cache' = cache
     /\ (cache # <<>> /\ source' = source /\ rendered' # <<>>)
          => /\ Shows("error")' = cache[1].none
             /\ \A i \in 1..Len(filtered_df') :
                  \E k \in 1..Len(cache[1].rows) : filtered_df'[i] = cache[1].rows[k]]_vars

C7_Witness ==
  /\ Loaded
  /\ served = "hit"
  /\ reads = 1
  /\ source = Missing
  /\ Len(df.rows) = 2
  /\ Len(filtered_df) = 2
  /\ Completed

-----------------------------------------------------------------------------
(* C8: the top journals *)

Listed(tj) == {tj[k][1] : k \in 1..Len(tj)}

\* At most TopN entries, each a journal of the view with its exact count,
\* counts descending, no journal twice, and no journal left out that has more
\* records than one that is in.
TopByCount(tj, rows) ==
  /\ Len(tj) <= TopN
  /\ \A k \in 1..Len(tj) :
       tj[k][1] \in JournalsIn(rows) /\ tj[k][2] = CountIn(rows, tj[k][1])
  /\ \A k \in 1..Len(tj) : \A l \in (k + 1)..Len(tj) :
       tj[k][2] >= tj[l][2] /\ tj[k][1] # tj[l][1]
  /\ \A j \in JournalsIn(rows) \ Listed(tj) :
       Len(tj) = TopN /\ \A k \in 1..Len(tj) : tj[k][2] >= CountIn(rows, j)

\* Journals of equal count stand in the order they are first met in the view.
TiesInEncounterOrder(tj, rows) ==
  \A k \in 1..Len(tj) : \A l \in (k + 1)..Len(tj) :
    tj[k][2] = tj[l][2] => FirstIn(rows, tj[k][1]) < FirstIn(rows, tj[l][1])

\* C8 as stated: top_journals(10) has at most 10 entries, each a journal of the
\* view with its exact count, ordered by count descending with journals of
\* equal count in the order they are first met; no journal left out has a
\* higher count than one included.
C8_TopJournalsStable ==
  Shows("journal_chart")
    => TopByCount(top_journals, filtered_df) /\ TiesInEncounterOrder(top_journals, filtered_df)

\* C8 as amended: the same, without the order of journals of equal count, which
\* the sort behind value_counts() does not fix.
C8_TopJournalsByCount ==
  Shows("journal_chart") => TopByCount(top_journals, filtered_df)

C8_Witness ==
  /\ Shows("journal_chart")
  /\ Len(top_journals) = TopN
  /\ Cardinality(JournalsIn(filtered_df)) > TopN
  /\ top_journals[1][2] = 2
  /\ top_journals[2][2] = 1
  /\ top_journals[TopN][2] = 1

-----------------------------------------------------------------------------
(* C9: the words of the titles *)

\* The maximal runs of characters of C in the text t, from position a on.
RECURSIVE RunsFrom(_, _, _)
RunsFrom(t, a, C) ==
  IF a > Len(t) THEN <<>>
  ELSE IF t[a] \notin C THEN RunsFrom(t, a + 1, C)
  ELSE LET b == Max({e \in a..Len(t) : \A k \in a..e : t[k] \in C})
       IN <<SubSeq(t, a, b)>> \o RunsFrom(t, b + 1, C)

AllLetters(w) == \A i \in 1..Len(w) : w[i] \in AsciiLetters

RECURSIVE LowerAll(_)
LowerAll(ws) == IF ws = <<>> THEN <<>> ELSE <<lower(Head(ws))>> \o LowerAll(Tail(ws))

\* The bag the claim describes: the runs of ASCII letters of a title that are
\* 3 long or more, lower-cased, without the stop words.
LetterRunWords(title) ==
  SelectSeq(LowerAll(SelectSeq(RunsFrom(title, 1, AsciiLetters),
                               LAMBDA w : Len(w) >= MinWordLen)),
            LAMBDA w : w \notin stop_words)

\* The words of a title: the runs of word characters (letters, digits,
\* underscore) of the lower-cased title that are made of ASCII letters alone
\* and are 3 long or more, without the stop words.
WholeWords(title) ==
  SelectSeq(RunsFrom(lower(title), 1, WordChars),
            LAMBDA w : AllLetters(w) /\ Len(w) >= MinWordLen /\ w \notin stop_words)

RECURSIVE BagOfLetterRuns(_)
BagOfLetterRuns(titles) ==
  IF titles = <<>> THEN <<>>
  ELSE LetterRunWords(Head(titles)) \o BagOfLetterRuns(Tail(titles))

RECURSIVE BagOfWholeWords(_)
BagOfWholeWords(titles) ==
  IF titles = <<>> THEN <<>>
  ELSE WholeWords(Head(titles)) \o BagOfWholeWords(Tail(titles))

\* C9 as stated: the word bag is exactly the lower-cased maximal runs of ASCII
\* letters of length >= 3 of each title of the view, minus the stop words.
C9_BagOfLetterRuns ==
  Shows("wordcloud.header") => filtered_words = BagOfLetterRuns(TitleColumn(filtered_df))

\* C9 as amended: the word bag is exactly the words of each lower-cased title
\* of the view that are made of ASCII letters alone and are 3 long or more,
\* minus the stop words, a word being a maximal run of letters, digits and
\* underscores: a run of letters that touches a digit or an underscore is not
\* in the bag.  It holds no stop word, no token shorter than 3 and no token
\* with a non-letter, and no token spans two titles.
C9_BagOfWholeWords ==
  Shows("wordcloud.header")
    => /\ filtered_words = BagOfWholeWords(TitleColumn(filtered_df))
       /\ \A i \in 1..Len(filtered_words) :
            /\ filtered_words[i] \notin stop_words
            /\ Len(filtered_words[i]) >= MinWordLen
            /\ \A k \in 1..Len(filtered_words[i]) :
                 filtered_words[i][k] \in Range(LowerLetters)

\* The scenario of the claim: "Covid and Lungs", "The Vaccine Study".
C9_Witness ==
  /\ Shows("wordcloud")
  /\ TitleColumn(filtered_df) = ExampleTitles
  /\ filtered_words = <<<<"c", "o", "v", "i", "d">>, <<"l", "u", "n", "g", "s">>,
                        <<"v", "a", "c", "c", "i", "n", "e">>, <<"s", "t", "u", "d", "y">>>>

-----------------------------------------------------------------------------
(* C10: the journal selector, and a journal the year range leaves without records *)

\* 'All', then the first JournalOptionsLimit distinct journals of the rows in
\* the order they are first met.
OptionsAsClaimed(opts, rows) ==
  /\ Len(opts) >= 1
  /\ opts[1] = All
  /\ Len(opts) <= JournalOptionsLimit + 1
  /\ \A k \in 2..Len(opts) : opts[k] \in JournalsIn(rows)
  /\ \A k \in 2..Len(opts) : \A l \in (k + 1)..Len(opts) :
       FirstIn(rows, opts[k]) < FirstIn(rows, opts[l])
  /\ \A j \in JournalsIn(rows) \ {opts[k] : k \in 2..Len(opts)} :
       /\ Len(opts) = JournalOptionsLimit + 1
       /\ FirstIn(rows, j) > FirstIn(rows, opts[Len(opts)])

\* The chosen journal has no record among the rows the year range keeps.
ChosenJournalHasNoRecord ==
  /\ Loaded
  /\ selected_journal \notin {Null, Some(All)}
  /\ ~\E i \in 1..Len(df.rows) :
        /\ df.rows[i].journal = selected_journal
        /\ df.hasYear => InRange(df.rows[i].publication_year, year_range)

====
